---- MODULE Spec2Model ----
\* A model of src/main.py, the Streamlit finance tracker: the keyword
\* classifier, the category store kept in categories.json, the ledger kept in
\* finance_data.csv, and the script runs of main() that load, change and save
\* them behind the access-code gate.
EXTENDS Integers, Sequences, FiniteSets, TLC

VARIABLES
    authenticated,      \* st.session_state.authenticated
    access_code,        \* the value of the "Enter access code" text input
    finance_data_csv,   \* the rows of finance_data.csv, below its header
    categories_json,    \* the tokens of categories.json
    n_saved,            \* how many times save_data or save_categories has run
    page,               \* what the last script run rendered
    description,        \* the value of the sidebar's "Description" text input
    expenses_df,        \* expenses_df of the last script run
    categories,         \* categories of the last script run
    suggested_category, \* suggested_category of the last script run
    start_date,         \* start_date of the last script run (a day; 0: not drawn)
    end_date,           \* end_date of the last script run (a day; 0: not drawn)
    selected_category,  \* "Filter by Category" in the last script run
    filtered_df,        \* filtered_df of the last script run
    outcome             \* the st.success/st.error/st.warning branch last taken

vars == <<authenticated, access_code, finance_data_csv, categories_json, n_saved,
          page, description, expenses_df, categories, suggested_category,
          start_date, end_date, selected_category, filtered_df, outcome>>

-----------------------------------------------------------------------------
\* Bounds of the model.

\* Writes of the two files (save_data, save_categories) that are explored.
MaxSaves == 2
\* Length of the descriptions handed to the classifier in SpecClassify.
MaxDescLen == 2
\* Keywords per category in the stores handed to the classifier in SpecClassify.
MaxKw == 2
\* Rows of the frames handed to the filter in SpecFilter.
MaxRows == 2

-----------------------------------------------------------------------------
\* Text.  A str is a sequence of one-character strings.

UpperCase == <<"A","B","C","D","E","F","G","H","I","J","K","L","M",
               "N","O","P","Q","R","S","T","U","V","W","X","Y","Z">>
LowerCase == <<"a","b","c","d","e","f","g","h","i","j","k","l","m",
               "n","o","p","q","r","s","t","u","v","w","x","y","z">>

\* The lowercase letter of each uppercase letter.
ToLower ==
    [c \in {UpperCase[i] : i \in DOMAIN UpperCase} |->
        LowerCase[CHOOSE i \in DOMAIN UpperCase : UpperCase[i] = c]]

\* str.lower(), one character.
lower_char(c) == IF c \in DOMAIN ToLower THEN ToLower[c] ELSE c

\* str.lower().
lower(s) == [i \in 1..Len(s) |-> lower_char(s[i])]

\* Python's `needle in hay` on two strs: some offset k at which every character
\* of needle is found.  The empty needle is in every hay.
contains(needle, hay) ==
    \E k \in 0..(Len(hay) - Len(needle)) :
        \A i \in 1..Len(needle) : hay[k + i] = needle[i]

\* The literal "Other" of categorize_expense and of the fallback store.
Other == <<"O","t","h","e","r">>
\* The sentinel "All" of the "Filter by Category" selectbox.
All == <<"A","l","l">>

Food == <<"F","o","o","d">>
Transport == <<"T","r","a","n","s","p","o","r","t">>
Entertainment == <<"E","n","t","e","r","t","a","i","n","m","e","n","t">>
Bills == <<"B","i","l","l","s">>

-----------------------------------------------------------------------------
\* A dict from str to list of str, in insertion order: a sequence of
\* [name, keywords] with no name twice.

keys_list(d) == [i \in 1..Len(d) |-> d[i].name]
keys(d) == {d[i].name : i \in 1..Len(d)}

\* d[name], for a name that is a key.
dict_get(d, name) == d[CHOOSE i \in 1..Len(d) : d[i].name = name].keywords

\* An assignment that leaves name as the dict's only key.
dict_set_only(d, name, value) == << [name |-> name, keywords |-> value] >>

\* d[name] = value: in place for a key, at the end for a new name.
dict_set(d, name, value) ==
    IF name \in keys(d)
    THEN [i \in 1..Len(d) |->
             IF d[i].name = name THEN [name |-> name, keywords |-> value] ELSE d[i]]
    ELSE Append(d, [name |-> name, keywords |-> value])

\* The store written when categories.json does not exist.
DefaultCategories == <<
    [name |-> Food, keywords |-> << <<"g","r","o","c","e","r","y">>,
                                    <<"r","e","s","t","a","u","r","a","n","t">>,
                                    <<"l","u","n","c","h">> >>],
    [name |-> Transport, keywords |-> << <<"u","b","e","r">>,
                                         <<"t","a","x","i">>,
                                         <<"g","a","s">> >>],
    [name |-> Entertainment, keywords |-> << <<"m","o","v","i","e">>,
                                             <<"g","a","m","e">>,
                                             <<"c","o","n","c","e","r","t">> >>],
    [name |-> Bills, keywords |-> << <<"e","l","e","c","t","r","i","c">>,
                                     <<"w","a","t","e","r">>,
                                     <<"i","n","t","e","r","n","e","t">> >>],
    [name |-> Other, keywords |-> << >>] >>

\* What load_categories returns when the file cannot be read or parsed.
FallbackCategories == << [name |-> Other, keywords |-> << >>] >>

-----------------------------------------------------------------------------
\* categorize_expense.

\* The inner loop: the first keyword of the list whose lower() is in the
\* (already lowercased) description returns; TRUE when one does.
RECURSIVE keyword_loop(_, _, _)
keyword_loop(keywords, j, desc) ==
    IF j > Len(keywords) THEN FALSE
    ELSE IF contains(lower(keywords[j]), desc) THEN TRUE
    ELSE keyword_loop(keywords, j + 1, desc)

\* The outer loop, falling back on the store's last category.
RECURSIVE category_loop_last(_, _, _)
category_loop_last(cats, i, desc) ==
    IF i > Len(cats) THEN (IF cats = << >> THEN Other ELSE cats[Len(cats)].name)
    ELSE IF keyword_loop(cats[i].keywords, 1, desc) THEN cats[i].name
    ELSE category_loop_last(cats, i + 1, desc)

\* The outer loop over categories.items(), from item i on.
RECURSIVE category_loop(_, _, _)
category_loop(cats, i, desc) ==
    IF i > Len(cats) THEN Other
    ELSE IF keyword_loop(cats[i].keywords, 1, desc) THEN cats[i].name
    ELSE category_loop(cats, i + 1, desc)

\* categorize_expense without the lower() of line 51.
categorize_expense_as_typed(desc, cats) == category_loop(cats, 1, desc)

categorize_expense(desc, cats) == category_loop(cats, 1, lower(desc))

-----------------------------------------------------------------------------
\* categories.json.  The file is the sequence of JSON tokens json.dump writes
\* (indent=4 adds white space only); json.load parses it back.

Tok(t) == [t |-> t, s |-> << >>]
StrTok(s) == [t |-> "str", s |-> s]

\* The elements of a list, from element j on, comma separated.
RECURSIVE dump_list(_, _)
dump_list(l, j) ==
    IF j > Len(l) THEN << >>
    ELSE (IF j > 1 THEN << Tok(",") >> ELSE << >>)
         \o << StrTok(l[j]) >> \o dump_list(l, j + 1)

\* The members of a dict, from item i on, comma separated.
RECURSIVE dump_items(_, _)
dump_items(d, i) ==
    IF i > Len(d) THEN << >>
    ELSE (IF i > 1 THEN << Tok(",") >> ELSE << >>)
         \o << StrTok(d[i].name), Tok(":"), Tok("[") >>
         \o dump_list(d[i].keywords, 1)
         \o << Tok("]") >> \o dump_items(d, i + 1)

json_dump(d) == << Tok("{") >> \o dump_items(d, 1) \o << Tok("}") >>

\* save_categories writing the items last to first.
save_categories_reversed(cats) ==
    json_dump([i \in 1..Len(cats) |-> cats[Len(cats) + 1 - i]])

\* save_categories.
save_categories(cats) == json_dump(cats)

Peek(toks, i) == IF i \in DOMAIN toks THEN toks[i].t ELSE "EOF"
ParseError == [ok |-> FALSE, val |-> << >>, next |-> 0]

\* "s" ("," "s")* "]", with i at the first string.
RECURSIVE parse_elements(_, _, _)
parse_elements(toks, i, acc) ==
    IF Peek(toks, i) # "str" THEN ParseError
    ELSE IF Peek(toks, i + 1) = ","
         THEN parse_elements(toks, i + 2, Append(acc, toks[i].s))
    ELSE IF Peek(toks, i + 1) = "]"
         THEN [ok |-> TRUE, val |-> Append(acc, toks[i].s), next |-> i + 2]
    ELSE ParseError

parse_array(toks, i) ==
    IF Peek(toks, i) # "[" THEN ParseError
    ELSE IF Peek(toks, i + 1) = "]"
         THEN [ok |-> TRUE, val |-> << >>, next |-> i + 2]
    ELSE parse_elements(toks, i + 1, << >>)

\* "k" ":" array ("," "k" ":" array)* "}", with i at the first key.  A key met
\* again keeps its place and takes the later value, as a Python dict does.
RECURSIVE parse_members(_, _, _)
\* The rest of a member whose key is at i and whose value parsed as a.
parse_member_rest(toks, i, acc, a) ==
    IF ~a.ok THEN ParseError
    ELSE IF Peek(toks, a.next) = ","
         THEN parse_members(toks, a.next + 1, dict_set(acc, toks[i].s, a.val))
    ELSE IF Peek(toks, a.next) = "}"
         THEN [ok |-> TRUE, val |-> dict_set(acc, toks[i].s, a.val),
               next |-> a.next + 1]
    ELSE ParseError

parse_members(toks, i, acc) ==
    IF Peek(toks, i) # "str" \/ Peek(toks, i + 1) # ":" THEN ParseError
    ELSE parse_member_rest(toks, i, acc, parse_array(toks, i + 2))

parse_object(toks, i) ==
    IF Peek(toks, i) # "{" THEN ParseError
    ELSE IF Peek(toks, i + 1) = "}"
         THEN [ok |-> TRUE, val |-> << >>, next |-> i + 2]
    ELSE parse_members(toks, i + 1, << >>)

\* json.load: the whole file is one object, or the load raises.
whole_file(toks, r) == IF r.ok /\ r.next = Len(toks) + 1 THEN r ELSE ParseError
json_load(toks) == whole_file(toks, parse_object(toks, 1))

\* load_categories: the parsed file, or {"Other": []} when anything raises.
value_or_fallback(r) == IF r.ok THEN r.val ELSE FallbackCategories
load_categories(file) == value_or_fallback(json_load(file))

\* A categories.json cut short: json.load raises on it.
UnreadableJson == << Tok("{") >>

-----------------------------------------------------------------------------
\* finance_data.csv.  A row of the file is [Date, Description, Category,
\* Amount]: Date a day number (the ISO text of a midnight Timestamp names the
\* day and nothing else), Amount in cents, Description and Category the text
\* of the field.  A cell of the DataFrame holds a str or NaN.

\* pandas' missing value: no str, being a sequence whose element is no character.
NaN == << "NaN" >>

\* The texts read_csv takes for a missing value (its default na_values).
na_values == {
    << >>,
    <<"#","N","/","A">>, <<"#","N","/","A"," ","N","/","A">>, <<"#","N","A">>,
    <<"-","1",".","#","I","N","D">>, <<"-","1",".","#","Q","N","A","N">>,
    <<"-","N","a","N">>, <<"-","n","a","n">>,
    <<"1",".","#","I","N","D">>, <<"1",".","#","Q","N","A","N">>,
    <<"<","N","A",">">>, <<"N","/","A">>, <<"N","A">>, <<"N","U","L","L">>,
    <<"N","a","N">>, <<"N","o","n","e">>, <<"n","/","a">>, <<"n","a","n">>,
    <<"n","u","l","l">> }

\* read_csv on one text field of an object column.
read_field(text) == IF text \in na_values THEN NaN ELSE text

\* to_csv on one cell of an object column: NaN is written as the empty field.
write_field(cell) == IF cell = NaN THEN << >> ELSE cell

\* load_data, on the file the program keeps (header and well-formed rows).
load_data(file) ==
    [i \in 1..Len(file) |->
        [Date |-> file[i].Date,
         Description |-> read_field(file[i].Description),
         Category |-> read_field(file[i].Category),
         Amount |-> file[i].Amount]]

\* save_data.
save_data(df) ==
    [i \in 1..Len(df) |->
        [Date |-> df[i].Date,
         Description |-> write_field(df[i].Description),
         Category |-> write_field(df[i].Category),
         Amount |-> df[i].Amount]]

\* pd.concat([expenses_df, new_expense], ignore_index=True).
concat(df, row) == Append(df, row)

\* expenses_df['Date'].min() and .max(), of a frame that is not empty.
min_date(df) == CHOOSE d \in {df[i].Date : i \in 1..Len(df)} :
                    \A i \in 1..Len(df) : d <= df[i].Date
max_date(df) == CHOOSE d \in {df[i].Date : i \in 1..Len(df)} :
                    \A i \in 1..Len(df) : d >= df[i].Date

\* The mask on Date with the end date left out.
InRangeEndExclusive(r, start, end) == r.Date >= start /\ r.Date < end

\* The boolean mask on Date, both ends inclusive.
InRange(r, start, end) == r.Date >= start /\ r.Date <= end

\* The rows the Date mask keeps.
date_mask(df, start, end) == SelectSeq(df, LAMBDA r : InRange(r, start, end))

\* The mask on Category, skipped for "All".
category_mask(df, selected) ==
    IF selected # All
    THEN SelectSeq(df, LAMBDA r : r.Category = selected)
    ELSE df

\* The Expenses tab's filtered_df.
filter(df, start, end, selected) ==
    category_mask(date_mask(df, start, end), selected)

-----------------------------------------------------------------------------
\* The inputs the model draws for the widgets.

\* The access code main() compares with.
AccessCode == "ayoub2003"
Codes == {AccessCode, "ayoub2004"}

\* Days for the date inputs.
Dates == {1, 2}
\* Amounts, in cents; the number input has min_value 0.
Amounts == {0, 1}

Gas == <<"G","a","s">>
Pets == <<"P","e","t","s">>

\* Descriptions typed in the sidebar: none, one with a keyword of the default
\* store in it, one that reads as a missing value.
AppDescriptions == {<< >>, Gas, <<"N","A">>}
\* Choices of the sidebar's "Category" selectbox that are tried for the
\* description desc: the suggestion it comes up with, and "Other".
CategoryChoices(desc) ==
    {categorize_expense(desc, load_categories(categories_json)), Other}
\* Names typed in "Category Name".
NewCategoryNames == {<< >>, Food, Pets}
\* Keywords typed in "New Keyword".
NewKeywords == {<< >>, Gas}
\* What st.selectbox returns for no options.
None == << "None" >>
\* Choices of "Select Category" that are tried.
KeywordTargets == {Food, Other, None}
\* Choices of "Filter by Category" that are tried.
FilterChoices == {All, Transport}

\* The values a selectbox over the keys can hold.
selectbox(options) == IF options = {} THEN {None} ELSE options

-----------------------------------------------------------------------------
\* The state after the module's top level has run in a fresh session: the
\* ledger file holds its header only; categories.json is the default store, or
\* a file that was there before and cannot be parsed.

Init ==
    /\ authenticated = FALSE
    /\ access_code = ""
    /\ finance_data_csv = << >>
    /\ categories_json \in {json_dump(DefaultCategories), UnreadableJson}
    /\ n_saved = 0
    /\ page = "none"
    /\ description = << >>
    /\ expenses_df = << >>
    /\ categories = << >>
    /\ suggested_category = << >>
    /\ start_date = 0
    /\ end_date = 0
    /\ selected_category = All
    /\ filtered_df = << >>
    /\ outcome = "none"

-----------------------------------------------------------------------------
\* One run of main() past the gate, from line 82 to the footer.  df and cats
\* are what load_data() and load_categories() returned, desc is what the
\* description input holds, suggestion the suggested_category of line 90, oc
\* the message branch the run took.  The Expenses tab's widgets hold start,
\* end and selected, or, untouched, min_date, max_date and "All".  The
\* selectbox of line 91 raises ValueError when the suggestion is no key, and
\* the run ends there.
Draw(df, cats, desc, suggestion, drawn, start, end, selected, oc) ==
    /\ expenses_df' = df
    /\ categories' = cats
    /\ description' = desc
    /\ suggested_category' = suggestion
    /\ start_date' = start
    /\ end_date' = end
    /\ selected_category' = selected
    /\ filtered_df' = IF drawn THEN filter(df, start, end, selected) ELSE << >>
    /\ IF suggestion \notin keys(cats)
       THEN page' = "exception" /\ outcome' = "ValueError"
       ELSE page' = "app" /\ outcome' = oc

\* The Expenses tab is drawn when line 92 did not raise and the frame is not
\* empty.
Drawn(df, cats, suggestion) == suggestion \in keys(cats) /\ df # << >>

RenderWith(df, cats, desc, suggestion, untouched, start, end, selected, oc) ==
    IF ~Drawn(df, cats, suggestion)
    THEN Draw(df, cats, desc, suggestion, FALSE, 0, 0, All, oc)
    ELSE IF untouched
    THEN Draw(df, cats, desc, suggestion, TRUE, min_date(df), max_date(df), All, oc)
    ELSE Draw(df, cats, desc, suggestion, TRUE, start, end, selected, oc)

Render(df, cats, desc, untouched, start, end, selected, oc) ==
    RenderWith(df, cats, desc, categorize_expense(desc, cats), untouched,
               start, end, selected, oc)

\* A run with the widgets of the Expenses tab untouched.
RenderDefault(df, cats, desc, oc) == Render(df, cats, desc, TRUE, 0, 0, All, oc)

\* Line 92 of the run that is about to handle a button, cats being the
\* categories it loaded.
Line92Raises(desc, cats) == categorize_expense(desc, cats) \notin keys(cats)

\* Lines 66 to 79 for a run that is not a pressed Login: the login page is
\* drawn and main() returns.
LoginPage ==
    /\ page' = "login"
    /\ outcome' = "none"
    /\ UNCHANGED <<authenticated, access_code, finance_data_csv, categories_json,
                   n_saved, description, expenses_df, categories,
                   suggested_category, start_date, end_date, selected_category,
                   filtered_df>>

\* A gate that takes any code.
AccessGrantedAlways(code) == TRUE

\* The comparison of line 73.
AccessGranted(code) == code = AccessCode

\* "Login" pressed with code in the text input.  The widgets exist only while
\* the session is not authenticated.
Login(code) ==
    /\ ~authenticated
    /\ access_code' = code
    /\ UNCHANGED <<finance_data_csv, categories_json, n_saved>>
    /\ IF AccessGranted(code)
       THEN /\ authenticated' = TRUE
            /\ RenderDefault(load_data(finance_data_csv),
                             load_categories(categories_json), description,
                             "Access granted!")
       ELSE /\ page' = "login"
            /\ outcome' = "Invalid access code"
            /\ UNCHANGED <<authenticated, description, expenses_df, categories,
                           suggested_category, start_date, end_date,
                           selected_category, filtered_df>>

\* The description input edited, no button pressed.
EditDescription(desc) ==
    IF ~authenticated THEN LoginPage
    ELSE /\ UNCHANGED <<authenticated, access_code, finance_data_csv,
                        categories_json, n_saved>>
         /\ RenderDefault(load_data(finance_data_csv),
                          load_categories(categories_json), desc, "none")

\* The validation of lines 94 to 97: the error it reports, or "ok".
validate(desc, amount) ==
    IF desc = << >> THEN "Please enter a description"
    ELSE IF amount <= 0 THEN "Amount must be positive"
    ELSE "ok"

\* The row of line 99.
new_expense(date, desc, category, amount) ==
    [Date |-> date, Description |-> desc, Category |-> category, Amount |-> amount]

\* The run in which "Add Expense" is pressed, having loaded df and cats.
AddExpenseRun(date, desc, amount, category, df, cats) ==
    /\ UNCHANGED <<authenticated, access_code, categories_json>>
    /\ IF Line92Raises(desc, cats)
       THEN /\ UNCHANGED <<finance_data_csv, n_saved>>
            /\ RenderDefault(df, cats, desc, "none")
       ELSE /\ category \in keys(cats)
            /\ IF validate(desc, amount) # "ok"
               THEN /\ UNCHANGED <<finance_data_csv, n_saved>>
                    /\ RenderDefault(df, cats, desc, validate(desc, amount))
               ELSE /\ n_saved < MaxSaves
                    /\ n_saved' = n_saved + 1
                    /\ finance_data_csv' =
                           save_data(concat(df,
                               new_expense(date, desc, category, amount)))
                    /\ RenderDefault(load_data(finance_data_csv'), cats, desc,
                                     "Expense added successfully!")

\* "Add Expense" pressed.  category is what the Category selectbox holds: a key
\* of the store.
AddExpense(date, desc, amount, category) ==
    IF ~authenticated THEN LoginPage
    ELSE AddExpenseRun(date, desc, amount, category,
                       load_data(finance_data_csv),
                       load_categories(categories_json))

\* The Expenses tab's widgets set, no button pressed.
ViewExpenses(start, end, selected) ==
    IF ~authenticated THEN LoginPage
    ELSE /\ UNCHANGED <<authenticated, access_code, finance_data_csv,
                        categories_json, n_saved>>
         /\ Render(load_data(finance_data_csv),
                   load_categories(categories_json), description, FALSE,
                   start, end, selected, "none")

\* The test of line 158 without its "not in categories".
valid_new_category_nonempty(new_category, cats) == new_category # << >>

\* The test of line 158.
valid_new_category(new_category, cats) ==
    new_category # << >> /\ new_category \notin keys(cats)

\* The run in which "Add Category" is pressed, having loaded df and cats.
AddCategoryRun(new_category, df, cats) ==
    /\ UNCHANGED <<authenticated, access_code, finance_data_csv>>
    /\ IF Line92Raises(description, cats)
       THEN /\ UNCHANGED <<categories_json, n_saved>>
            /\ RenderDefault(df, cats, description, "none")
       ELSE IF valid_new_category(new_category, cats)
       THEN /\ n_saved < MaxSaves
            /\ n_saved' = n_saved + 1
            /\ categories_json' =
                   save_categories(dict_set(cats, new_category, << >>))
            /\ RenderDefault(df, load_categories(categories_json'), description,
                             "Category added!")
       ELSE /\ UNCHANGED <<categories_json, n_saved>>
            /\ RenderDefault(df, cats, description,
                             "Please enter a valid, unique category name")

\* "Add Category" pressed.
AddCategory(new_category) ==
    IF ~authenticated THEN LoginPage
    ELSE AddCategoryRun(new_category, load_data(finance_data_csv),
                        load_categories(categories_json))

\* categories[selected].append(new_keyword).
append_keyword(cats, selected, new_keyword) ==
    dict_set(cats, selected, Append(dict_get(cats, selected), new_keyword))

\* The run in which "Add Keyword" is pressed, having loaded df and cats.
\* categories[selected] raises KeyError for what is no key.
AddKeywordRun(selected, new_keyword, df, cats) ==
    /\ UNCHANGED <<authenticated, access_code, finance_data_csv>>
    /\ selected \in selectbox(keys(cats))
    /\ IF Line92Raises(description, cats)
       THEN /\ UNCHANGED <<categories_json, n_saved>>
            /\ RenderDefault(df, cats, description, "none")
       ELSE IF new_keyword = << >>
       THEN /\ UNCHANGED <<categories_json, n_saved>>
            /\ RenderDefault(df, cats, description, "none")
       ELSE IF selected \notin keys(cats)
       THEN /\ UNCHANGED <<categories_json, n_saved, description,
                           start_date, end_date, selected_category>>
            /\ expenses_df' = df
            /\ categories' = cats
            /\ suggested_category' = categorize_expense(description, cats)
            /\ filtered_df' =
                   IF df = << >> THEN << >>
                   ELSE filter(df, min_date(df), max_date(df), All)
            /\ page' = "exception"
            /\ outcome' = "KeyError"
       ELSE /\ n_saved < MaxSaves
            /\ n_saved' = n_saved + 1
            /\ categories_json' =
                   save_categories(append_keyword(cats, selected, new_keyword))
            /\ RenderDefault(df, load_categories(categories_json'), description,
                             "Keyword added")

\* "Add Keyword" pressed.  selected is what "Select Category" holds.
AddKeyword(selected, new_keyword) ==
    IF ~authenticated THEN LoginPage
    ELSE AddKeywordRun(selected, new_keyword, load_data(finance_data_csv),
                       load_categories(categories_json))

Next ==
    \/ \E code \in Codes : Login(code)
    \/ \E desc \in AppDescriptions : EditDescription(desc)
    \/ \E desc \in AppDescriptions :
           \E category \in CategoryChoices(desc), date \in Dates,
              amount \in Amounts :
               AddExpense(date, desc, amount, category)
    \/ \E start \in Dates, end \in Dates, selected \in FilterChoices :
           ViewExpenses(start, end, selected)
    \/ \E new_category \in NewCategoryNames : AddCategory(new_category)
    \/ \E selected \in KeywordTargets, new_keyword \in NewKeywords :
           AddKeyword(selected, new_keyword)

Spec == Init /\ [][Next]_vars

-----------------------------------------------------------------------------
\* categorize_expense on its own: a store and a description are drawn, and the
\* function is applied to them.

ClassifyAlphabet == {"a", "b", "B"}
ClassifyKeywords == { <<"a">>, <<"B","a">> }
ClassifyNames == {Other, Food, Bills}

\* The sequences over S of length at most n.
SeqsUpTo(S, n) == UNION {[1..k -> S] : k \in 0..n}

ClassifyDescriptions == SeqsUpTo(ClassifyAlphabet, MaxDescLen)
KeywordLists == SeqsUpTo(ClassifyKeywords, MaxKw)

\* The orders in which some of the names can have been inserted.
NameOrders ==
    {o \in SeqsUpTo(ClassifyNames, Cardinality(ClassifyNames)) :
        \A i, j \in 1..Len(o) : i # j => o[i] # o[j]}

\* Every store over the names, each with a keyword list.
ClassifyStores ==
    UNION {{[i \in 1..Len(o) |-> [name |-> o[i], keywords |-> kl[i]]] :
               kl \in [1..Len(o) -> KeywordLists]} : o \in NameOrders}

ClassifyInit ==
    /\ authenticated = TRUE
    /\ access_code = AccessCode
    /\ finance_data_csv = << >>
    /\ categories_json = UnreadableJson
    /\ n_saved = 0
    /\ page = "none"
    /\ description \in ClassifyDescriptions
    /\ expenses_df = << >>
    /\ categories \in ClassifyStores
    /\ suggested_category = << >>
    /\ start_date = 0
    /\ end_date = 0
    /\ selected_category = All
    /\ filtered_df = << >>
    /\ outcome = "none"

\* Line 90.
Classify ==
    /\ page = "none"
    /\ suggested_category' = categorize_expense(description, categories)
    /\ page' = "classified"
    /\ UNCHANGED <<authenticated, access_code, finance_data_csv, categories_json,
                   n_saved, description, expenses_df, categories, start_date,
                   end_date, selected_category, filtered_df, outcome>>

ClassifyNext == Classify

SpecClassify == ClassifyInit /\ [][ClassifyNext]_vars

-----------------------------------------------------------------------------
\* The Expenses tab's filter on its own: a frame is drawn, and lines 132 to
\* 142 are applied to it for widget values that are drawn too.

FilterDates == {1, 2, 3}
FilterRows ==
    [Date : FilterDates, Description : {Gas}, Category : {Food, Other},
     Amount : {1, 2}]
FilterFrames == SeqsUpTo(FilterRows, MaxRows)
FilterSelections == {All, Food, Other}

FilterInit ==
    /\ authenticated = TRUE
    /\ access_code = AccessCode
    /\ finance_data_csv = << >>
    /\ categories_json = UnreadableJson
    /\ n_saved = 0
    /\ page = "none"
    /\ description = << >>
    /\ expenses_df \in FilterFrames
    /\ categories = FallbackCategories
    /\ suggested_category = Other
    /\ start_date = 0
    /\ end_date = 0
    /\ selected_category = All
    /\ filtered_df = << >>
    /\ outcome = "none"

\* Lines 122 to 144, for a frame that is not empty.
ApplyFilter(start, end, selected) ==
    /\ expenses_df # << >>
    /\ start_date' = start
    /\ end_date' = end
    /\ selected_category' = selected
    /\ filtered_df' = filter(expenses_df, start, end, selected)
    /\ page' = "app"
    /\ UNCHANGED <<authenticated, access_code, finance_data_csv, categories_json,
                   n_saved, description, expenses_df, categories,
                   suggested_category, outcome>>

FilterNext ==
    \E start \in FilterDates, end \in FilterDates, selected \in FilterSelections :
        ApplyFilter(start, end, selected)

SpecFilter == FilterInit /\ [][FilterNext]_vars

-----------------------------------------------------------------------------
\* The "Add Keyword" handler on its own: a store is drawn, and lines 167 to
\* 174 are applied to it.

KeywordInit ==
    /\ authenticated = TRUE
    /\ access_code = AccessCode
    /\ finance_data_csv = << >>
    /\ categories \in ClassifyStores
    /\ categories_json = save_categories(categories)
    /\ n_saved = 0
    /\ page = "none"
    /\ description = << >>
    /\ expenses_df = << >>
    /\ suggested_category = << >>
    /\ start_date = 0
    /\ end_date = 0
    /\ selected_category = All
    /\ filtered_df = << >>
    /\ outcome = "none"

HandleAddKeyword(selected, new_keyword) ==
    /\ page = "none"
    /\ selected \in selectbox(keys(categories))
    /\ IF new_keyword = << >>
       THEN /\ UNCHANGED <<categories, categories_json, n_saved>>
            /\ page' = "app"
            /\ outcome' = "none"
       ELSE IF selected \notin keys(categories)
       THEN /\ UNCHANGED <<categories, categories_json, n_saved>>
            /\ page' = "exception"
            /\ outcome' = "KeyError"
       ELSE /\ categories' = append_keyword(categories, selected, new_keyword)
            /\ categories_json' = save_categories(categories')
            /\ n_saved' = n_saved + 1
            /\ page' = "app"
            /\ outcome' = "Keyword added"
    /\ UNCHANGED <<authenticated, access_code, finance_data_csv, description,
                   expenses_df, suggested_category, start_date, end_date,
                   selected_category, filtered_df>>

KeywordNext ==
    \E selected \in ClassifyNames \cup {None}, new_keyword \in NewKeywords :
        HandleAddKeyword(selected, new_keyword)

SpecKeyword == KeywordInit /\ [][KeywordNext]_vars

-----------------------------------------------------------------------------
\* What the claims say, stated without the loops of the code.

\* Two characters that are the same letter up to case.
SameLetter(c, d) ==
    \/ c = d
    \/ \E i \in DOMAIN UpperCase : {c, d} = {UpperCase[i], LowerCase[i]}

\* kw occurs in text, case ignored: some slice of text is kw letter by letter.
OccursIn(kw, text) ==
    \E a \in 1..(Len(text) + 1) :
        /\ a + Len(kw) - 1 <= Len(text)
        /\ \A i \in 1..Len(kw) : SameLetter(text[a + i - 1], kw[i])

\* Category i of the store has a keyword that occurs in text.
CategoryMatches(cats, i, text) ==
    \E j \in 1..Len(cats[i].keywords) : OccursIn(cats[i].keywords[j], text)

\* C1: classify is first-match-wins by category order: when category i has a
\* keyword that occurs in the description (case ignored on both sides) and no
\* category before it has one, the result is category i's name, whatever the
\* categories after it match.
C1_FirstMatchWins ==
    page = "classified" =>
        \A i \in 1..Len(categories) :
            (/\ CategoryMatches(categories, i, description)
             /\ \A h \in 1..(i - 1) : ~CategoryMatches(categories, h, description))
            => suggested_category = categories[i].name

\* A classification in which the description holds an uppercase letter, two
\* categories match, and the earlier one, which is not the store's first
\* category, was returned.
C1_Witness ==
    /\ page = "classified"
    /\ description # lower(description)
    /\ \E i, j \in 1..Len(categories) :
           /\ 1 < i /\ i < j
           /\ CategoryMatches(categories, i, description)
           /\ CategoryMatches(categories, j, description)
           /\ ~CategoryMatches(categories, 1, description)
           /\ suggested_category = categories[i].name
           /\ suggested_category # Other

\* C2: classify returns "Other" whenever no keyword of any category occurs in
\* the description: the empty description, the store with no categories or
\* with empty keyword lists, the store with no "Other" key.
\* and classifying leaves the store as it was.
C2_NoMatchIsOther ==
    /\ [](page = "classified" =>
            ((\A i \in 1..Len(categories) :
                  ~CategoryMatches(categories, i, description))
             => suggested_category = Other))
    /\ [][categories' = categories /\ categories_json' = categories_json]_vars

\* A classification of a description that is not empty, on a store that has
\* keywords and no "Other" key, that returned "Other".
C2_Witness ==
    /\ page = "classified"
    /\ description # << >>
    /\ Other \notin keys(categories)
    /\ \E i \in 1..Len(categories) : categories[i].keywords # << >>
    /\ suggested_category = Other

\* The records of df that the filter is to keep.
Keeps(r, start, end, selected) ==
    /\ start <= r.Date
    /\ r.Date <= end
    /\ selected # All => r.Category = selected

\* out is df with the records that are not to be kept struck out: the k-th
\* record of out is the k-th kept record of df.
IsFiltered(out, df, start, end, selected) ==
    LET kept == {i \in 1..Len(df) : Keeps(df[i], start, end, selected)}
        nth(k) == CHOOSE i \in kept : Cardinality({h \in kept : h <= i}) = k
    IN  /\ Len(out) = Cardinality(kept)
        /\ \A k \in 1..Len(out) : out[k] = df[nth(k)]

\* C6: the filter returns exactly the records whose date is in [start, end],
\* both ends included, and, unless the category is "All", whose category is
\* the one given, in the ledger's order; a range that covers every record with
\* "All" returns the whole ledger; filtering leaves the ledger as it was.
C6_Filter ==
    /\ [](page = "app" =>
            /\ IsFiltered(filtered_df, expenses_df, start_date, end_date,
                          selected_category)
            /\ ((/\ selected_category = All
                 /\ \A i \in 1..Len(expenses_df) :
                        /\ start_date <= expenses_df[i].Date
                        /\ expenses_df[i].Date <= end_date)
                => filtered_df = expenses_df))
    /\ [][/\ expenses_df' = expenses_df
          /\ finance_data_csv' = finance_data_csv]_vars

\* A filter run on a frame of two records, both dated in the range, that kept
\* the second, dated end_date, and dropped the first for its category.
C6_Witness ==
    /\ page = "app"
    /\ start_date < end_date
    /\ selected_category # All
    /\ Len(expenses_df) = 2
    /\ expenses_df[1].Date = start_date
    /\ expenses_df[2].Date = end_date
    /\ expenses_df[1].Category # selected_category
    /\ filtered_df = << expenses_df[2] >>

\* The store with an empty category name appended as its last key.
WithCategory(cats, name) == Append(cats, [name |-> name, keywords |-> << >>])

\* The store with kw appended to the keyword list of its i-th category.
WithKeyword(cats, i, kw) ==
    [cats EXCEPT ![i].keywords = Append(cats[i].keywords, kw)]

\* The position of a key in the store.
IndexOf(cats, name) == CHOOSE i \in 1..Len(cats) : cats[i].name = name

\* The ways a run in which "Add Category" is pressed can end.
AddCategoryOutcomes ==
    {"Category added!", "Please enter a valid, unique category name", "none",
     "ValueError"}

\* What C4 says of a step that is "Add Category" pressed with name typed, in a
\* run that loaded df and cats.
AddCategoryAsClaimed(df, cats) ==
    \A name \in NewCategoryNames :
        AddCategoryRun(name, df, cats) =>
            IF name = << >> \/ name \in keys(categories)
            THEN /\ outcome' = "Please enter a valid, unique category name"
                 /\ categories' = categories
                 /\ categories_json' = categories_json
            ELSE /\ outcome' = "Category added!"
                 /\ categories' = WithCategory(categories, name)
                 /\ load_categories(categories_json') = categories'

\* C4: addCategory(name) fails when name is empty or already a key, and then
\* the store (keys, order, keyword lists) and categories.json are as they
\* were; otherwise name becomes the last key, with an empty keyword list, and
\* every other category and keyword list is as it was.
C4_AddCategory ==
    [][(authenticated /\ outcome' \in AddCategoryOutcomes) =>
           AddCategoryAsClaimed(load_data(finance_data_csv),
                                load_categories(categories_json))]_vars

\* "Add Category" has added Pets after a keyword was added to Food: Pets is
\* the last key, its list is empty, and Food's list kept the keyword.
C4_Witness ==
    /\ outcome = "Category added!"
    /\ Len(categories) = 6
    /\ categories[6] = [name |-> Pets, keywords |-> << >>]
    /\ categories[1].name = Food
    /\ Len(categories[1].keywords) = 4

\* The stores one successful addCategory or addKeyword makes of cats.
Mutations(cats) ==
    {WithCategory(cats, name) :
        name \in {n \in NewCategoryNames : n # << >> /\ n \notin keys(cats)}}
    \cup {WithKeyword(cats, i, kw) :
             i \in 1..Len(cats), kw \in NewKeywords \ {<< >>}}

\* C8: after every successful addCategory or addKeyword categories.json has
\* been written and parses to the store just mutated (keys and keyword lists
\* in the same order), which is the store the next run loads; a run that did
\* not succeed in one of the two writes nothing to categories.json.
C8_SavedAndReloaded ==
    [][IF outcome' \in {"Category added!", "Keyword added"}
       THEN /\ json_load(categories_json').ok
            /\ json_load(categories_json').val \in Mutations(categories)
            /\ categories' = json_load(categories_json').val
            /\ load_categories(categories_json') = categories'
       ELSE categories_json' = categories_json
      ]_vars

\* "Add Keyword" has appended Gas to the list of Other, the last of the keys,
\* in a store that came from the file that could not be parsed and to which
\* a category was added before: the file parses to the store in memory.
C8_Witness ==
    /\ outcome = "Keyword added"
    /\ Len(categories) = 2
    /\ categories[1] = [name |-> Other, keywords |-> << Gas >>]
    /\ categories[2].keywords = << >>
    /\ json_load(categories_json).ok
    /\ json_load(categories_json).val = categories

\* C9: from the default store or the fallback store, the category names only
\* grow, "Other" stays a key, the category suggested for any description is a
\* key of the store, and no run fails at the selector.
C9_SuggestionIsAKey ==
    /\ [](/\ Other \in keys(load_categories(categories_json))
          /\ page # "exception"
          /\ page = "app" =>
                 /\ Other \in keys(categories)
                 /\ suggested_category \in keys(categories)
                 /\ \A desc \in AppDescriptions :
                        categorize_expense(desc, categories) \in keys(categories))
    /\ [][/\ categories_json' # categories_json =>
                 keys(load_categories(categories_json))
                     \subseteq keys(load_categories(categories_json'))
          /\ authenticated => keys(categories) \subseteq keys(categories')
         ]_vars

\* A run on a store to which a category was added, with a description for
\* which a category other than "Other" is suggested.
C9_Witness ==
    /\ page = "app"
    /\ Pets \in keys(categories)
    /\ description = Gas
    /\ suggested_category = Transport
    /\ suggested_category \in keys(categories)

\* C10: while the session is not authenticated no run loads, shows or changes
\* the ledger or the store; the session becomes authenticated only by a Login
\* with the access code, a wrong code leaves it as it is; once authenticated
\* it stays so.
C10_LoginGate ==
    /\ [](~authenticated =>
              /\ page \in {"none", "login"}
              /\ expenses_df = << >>
              /\ categories = << >>
              /\ filtered_df = << >>
              /\ finance_data_csv = << >>
              /\ n_saved = 0)
    /\ [][/\ ~authenticated =>
                 UNCHANGED <<finance_data_csv, categories_json>>
          /\ (~authenticated /\ authenticated') =>
                 /\ access_code' = AccessCode
                 /\ outcome' = "Access granted!"
          /\ (~authenticated /\ access_code' # AccessCode) => ~authenticated'
          /\ authenticated => authenticated'
         ]_vars

\* After a Login with a wrong code, a run that pressed something else: the
\* login page again, nothing loaded, nothing written.
C10_Witness ==
    /\ ~authenticated
    /\ access_code = "ayoub2004"
    /\ page = "login"
    /\ outcome = "none"
    /\ categories = << >>

\* A record with a description and an amount above zero.
ValidRecord(r) ==
    /\ r.Description # << >>
    /\ r.Description # NaN
    /\ r.Amount > 0

\* C3: Ledger.add rejects an empty description or an amount <= 0 with a
\* validation error and leaves the ledger, in memory and in finance_data.csv,
\* as it was; any other submission appends one record, with the submitted
\* date, description, category and amount, at the end of the ledger.  So every
\* record of every reachable ledger has a description that is not empty and an
\* amount above zero.
C3_LedgerAdd ==
    /\ [](/\ \A i \in 1..Len(finance_data_csv) : ValidRecord(finance_data_csv[i])
          /\ \A i \in 1..Len(expenses_df) : ValidRecord(expenses_df[i]))
    /\ [][\A desc \in AppDescriptions, category \in keys(categories),
             date \in Dates, amount \in Amounts :
              (authenticated /\ AddExpense(date, desc, amount, category)) =>
                  IF desc = << >> \/ amount <= 0
                  THEN /\ outcome' \in {"Please enter a description",
                                        "Amount must be positive"}
                       /\ expenses_df' = expenses_df
                       /\ finance_data_csv' = finance_data_csv
                  ELSE /\ outcome' = "Expense added successfully!"
                       /\ expenses_df' =
                              Append(expenses_df,
                                     new_expense(date, desc, category, amount))
                       /\ finance_data_csv' =
                              Append(finance_data_csv,
                                     new_expense(date, desc, category, amount))
         ]_vars

\* s is t, or t cut after some record.
IsPrefix(s, t) ==
    /\ Len(s) <= Len(t)
    /\ \A i \in 1..Len(s) : s[i] = t[i]

\* C7: the ledger is append-only and its records are immutable: over every
\* step of the program finance_data.csv as it was is a prefix of
\* finance_data.csv as it is.
C7_AppendOnly == [][IsPrefix(finance_data_csv, finance_data_csv')]_vars

\* C5: addKeyword(categoryName, keyword) appends keyword, as given, to the end
\* of the named category's list and changes no other category; for a name
\* that is no key, the store with no categories included, it fails without
\* raising and without changing the store.
C5_AddKeyword ==
    [][\A selected \in ClassifyNames \cup {None}, new_keyword \in NewKeywords :
           HandleAddKeyword(selected, new_keyword) =>
               /\ page' # "exception"
               /\ IF selected \in keys(categories)
                  THEN /\ categories' =
                              WithKeyword(categories,
                                          IndexOf(categories, selected),
                                          new_keyword)
                       /\ load_categories(categories_json') = categories'
                  ELSE /\ categories' = categories
                       /\ categories_json' = categories_json
      ]_vars

====
